---- MODULE Spec2Model ----
(***************************************************************************)
(* BizForge backend (backend/ai_service.py, backend/config.py,             *)
(* backend/main.py): the AIService singleton, its text fallback chain,     *)
(* the JSON extractor, the logo image cascade and the ten request          *)
(* handlers, as a state machine.                                           *)
(*                                                                         *)
(* Python str values are sequences of one-character strings.  Texts never  *)
(* contain a backslash or a non-ASCII character; "\n" stands for every     *)
(* control character.                                                      *)
(***************************************************************************)
EXTENDS Integers, Sequences, FiniteSets, TLC

(* ------------------------------ bounds -------------------------------- *)

\* longest text handed to _extract_json in SpecExtract
MaxLen == 4
\* longest provider reply enumerated exhaustively in Spec
MaxReply == 2
\* generated logo files / leftover upload files counted up to these caps
MaxLogoFiles == 1
MaxTmpFiles == 1
\* requests in flight at the same time
MaxRequests == 2

(* ----------------------------- characters ----------------------------- *)

\* characters the enumerated texts are built from
Alphabet == {"[", "]", "{", "}", "1", ",", "x", "\""}

Digits == {"0", "1", "2", "3", "4", "5", "6", "7", "8", "9"}
\* json.decoder.WHITESPACE: ' \t\n\r' ("\n" stands for the three controls)
Whitespace == {" ", "\n"}
\* characters py_scanstring rejects inside a string in strict mode
ControlChars == {"\n"}

SeqsUpTo(S, n) == UNION {[1..k -> S] : k \in 0..n}

\* Python None, also the value json.loads gives for the text null
NoneVal == [t |-> "none", v |-> <<>>]
\* a provider reply that carries no text (message.content is None)
NoneText == <<"<None>">>

(* ------------------------- json.loads (CPython) ------------------------ *)

CharAt(s, i) == IF i >= 1 /\ i <= Len(s) THEN s[i] ELSE "<eof>"

\* end of the run of characters of S that starts at i (first index past it)
RunEnd(s, i, S) ==
  CHOOSE j \in i..(Len(s) + 1) :
    /\ \A k \in i..(j - 1) : s[k] \in S
    /\ (j = Len(s) + 1 \/ s[j] \notin S)

SkipWs(s, i) == IF i > Len(s) THEN i ELSE RunEnd(s, i, Whitespace)

HasPrefixAt(s, i, lit) ==
  /\ i + Len(lit) - 1 <= Len(s)
  /\ SubSeq(s, i, i + Len(lit) - 1) = lit

Fail == [ok |-> FALSE, val |-> NoneVal, end |-> 0]
Done(v, e) == [ok |-> TRUE, val |-> v, end |-> e]

\* NUMBER_RE = (-?(?:0|[1-9]\d*))(\.\d+)?([eE][-+]?\d+)?  matched at i;
\* the result is the index past the match, 0 when there is no match
\* the parts of NUMBER_RE are IntEnd, FracEnd and ExpEnd
\* (0|[1-9]\d*) with its first digit expected at p
IntEnd(s, p) ==
  IF CharAt(s, p) = "0" THEN p + 1
  ELSE IF CharAt(s, p) \in Digits THEN RunEnd(s, p, Digits)
  ELSE 0

\* (\.\d+)? after an integer part that ended at intEnd
FracEnd(s, intEnd) ==
  IF intEnd # 0 /\ CharAt(s, intEnd) = "." /\ CharAt(s, intEnd + 1) \in Digits
  THEN RunEnd(s, intEnd + 1, Digits)
  ELSE intEnd

\* ([eE][-+]?\d+)? after a fraction part that ended at fracEnd, its digits
\* expected at q
ExpEnd(s, fracEnd, q) ==
  IF fracEnd # 0 /\ CharAt(s, fracEnd) \in {"e", "E"} /\ CharAt(s, q) \in Digits
  THEN RunEnd(s, q, Digits)
  ELSE fracEnd

\* [eE][-+]? after a fraction part that ended at fracEnd
ExpDigits(s, fracEnd) ==
  IF CharAt(s, fracEnd + 1) \in {"+", "-"} THEN fracEnd + 2 ELSE fracEnd + 1

NumberTail(s, fracEnd) == ExpEnd(s, fracEnd, ExpDigits(s, fracEnd))

NumberEnd(s, i) ==
  NumberTail(s, FracEnd(s, IntEnd(s, IF CharAt(s, i) = "-" THEN i + 1 ELSE i)))

\* py_scanstring from the index after the opening quote
ScanString(s, i) ==
  IF \E j \in i..Len(s) : s[j] = "\""
  THEN LET j == CHOOSE j \in i..Len(s) :
                  s[j] = "\"" /\ \A k \in i..(j - 1) : s[k] # "\""
       IN IF \E k \in i..(j - 1) : s[k] \in ControlChars
          THEN Fail
          ELSE Done([t |-> "str", v |-> SubSeq(s, i, j - 1)], j + 1)
  ELSE Fail

RECURSIVE ScanOnce(_, _), JSONArray(_, _, _), JSONObject(_, _, _)

\* the last branches of _scan_once: a number that NUMBER_RE matched up to
\* numEnd, else NaN, Infinity, -Infinity, else StopIteration
ScanNumber(s, i, numEnd) ==
  IF numEnd # 0 THEN Done([t |-> "num", v |-> SubSeq(s, i, numEnd - 1)], numEnd)
  ELSE IF HasPrefixAt(s, i, <<"N", "a", "N">>)
    THEN Done([t |-> "num", v |-> <<"N", "a", "N">>], i + 3)
  ELSE IF HasPrefixAt(s, i, <<"I", "n", "f", "i", "n", "i", "t", "y">>)
    THEN Done([t |-> "num", v |-> <<"I", "n", "f">>], i + 8)
  ELSE IF HasPrefixAt(s, i, <<"-", "I", "n", "f", "i", "n", "i", "t", "y">>)
    THEN Done([t |-> "num", v |-> <<"-", "I", "n", "f">>], i + 9)
  ELSE Fail

\* json.scanner.py_make_scanner._scan_once
ScanOnce(s, i) ==
  LET c == CharAt(s, i) IN
  IF c = "<eof>" THEN Fail
  ELSE IF c = "\"" THEN ScanString(s, i + 1)
  ELSE IF c = "{" THEN
    LET a == IF CharAt(s, i + 1) \in Whitespace THEN SkipWs(s, i + 1)
             ELSE i + 1
    IN IF CharAt(s, a) = "}" THEN Done([t |-> "obj", v |-> <<>>], a + 1)
       ELSE IF CharAt(s, a) = "\"" THEN JSONObject(s, a, <<>>)
       ELSE Fail
  ELSE IF c = "[" THEN
    LET a == SkipWs(s, i + 1)
    IN IF CharAt(s, a) = "]" THEN Done([t |-> "arr", v |-> <<>>], a + 1)
       ELSE JSONArray(s, a, <<>>)
  ELSE IF HasPrefixAt(s, i, <<"n", "u", "l", "l">>) THEN Done(NoneVal, i + 4)
  ELSE IF HasPrefixAt(s, i, <<"t", "r", "u", "e">>)
    THEN Done([t |-> "bool", v |-> <<"true">>], i + 4)
  ELSE IF HasPrefixAt(s, i, <<"f", "a", "l", "s", "e">>)
    THEN Done([t |-> "bool", v |-> <<>>], i + 5)
  ELSE ScanNumber(s, i, NumberEnd(s, i))

\* json.decoder.JSONArray, from the first element at i
JSONArray(s, i, acc) ==
  LET r == ScanOnce(s, i) IN
  IF ~r.ok THEN Fail
  ELSE LET e == SkipWs(s, r.end)
           vals == Append(acc, r.val)
       IN IF CharAt(s, e) = "]" THEN Done([t |-> "arr", v |-> vals], e + 1)
          ELSE IF CharAt(s, e) = "," THEN JSONArray(s, SkipWs(s, e + 1), vals)
          ELSE Fail

\* json.decoder.JSONObject, from the opening quote of a key at i; a repeated
\* key keeps its last value
JSONObject(s, i, acc) ==
  LET k == ScanString(s, i + 1) IN
  IF ~k.ok THEN Fail
  ELSE LET c == SkipWs(s, k.end) IN
    IF CharAt(s, c) # ":" THEN Fail
    ELSE LET r == ScanOnce(s, SkipWs(s, c + 1)) IN
      IF ~r.ok THEN Fail
      ELSE LET e == SkipWs(s, r.end)
               pairs == (k.val.v :> r.val) @@ acc
           IN IF CharAt(s, e) = "}"
              THEN Done([t |-> "obj", v |-> pairs], e + 1)
              ELSE IF CharAt(s, e) = ","
                      /\ CharAt(s, SkipWs(s, e + 1)) = "\""
                   THEN JSONObject(s, SkipWs(s, e + 1), pairs)
                   ELSE Fail

\* JSONDecoder.raw_decode from the first non-whitespace character
raw_decode(s) == ScanOnce(s, SkipWs(s, 1))

\* JSONDecoder.decode after raw_decode gave r: nothing but whitespace may
\* follow the value
decode(s, r) ==
  IF r.ok /\ SkipWs(s, r.end) = Len(s) + 1
  THEN [kind |-> "ok", val |-> r.val]
  ELSE [kind |-> "JSONDecodeError", val |-> NoneVal]

\* json.loads: JSONDecoder.decode; a non-str argument raises TypeError
json_loads(text) ==
  IF text = NoneText THEN [kind |-> "TypeError", val |-> NoneVal]
  ELSE decode(text, raw_decode(text))

(* ------------------- re.search(r'\[.*\]|\{.*\}', DOTALL) ---------------- *)

\* index of the last c in s at or after from, 0 when there is none
LastIndexOf(s, c, from) ==
  IF \E j \in from..Len(s) : s[j] = c
  THEN CHOOSE j \in from..Len(s) :
         s[j] = c /\ \A k \in (j + 1)..Len(s) : s[k] # c
  ELSE 0

\* end index of the match of the pattern anchored at i, 0 when it does not
\* match there: '\[.*\]' is tried first, then '\{.*\}'; '.*' is greedy
RegexMatchAt(s, i) ==
  IF s[i] = "[" /\ LastIndexOf(s, "]", i + 1) # 0
  THEN LastIndexOf(s, "]", i + 1)
  ELSE IF s[i] = "{" /\ LastIndexOf(s, "}", i + 1) # 0
  THEN LastIndexOf(s, "}", i + 1)
  ELSE 0

NoMatch == <<>>

\* re_search for the pattern r'[\[{].*[\]}]': any opening bracket to the last
\* closing bracket of either kind
re_search_any_bracket(s) ==
  IF \E i \in 1..Len(s) : s[i] \in {"[", "{"}
         /\ \E j \in (i + 1)..Len(s) : s[j] \in {"]", "}"}
  THEN LET i == CHOOSE i \in 1..Len(s) :
                  /\ s[i] \in {"[", "{"}
                  /\ \A k \in 1..(i - 1) : s[k] \notin {"[", "{"}
           j == CHOOSE j \in 1..Len(s) :
                  /\ s[j] \in {"]", "}"}
                  /\ \A k \in (j + 1)..Len(s) : s[k] \notin {"]", "}"}
       IN IF i < j THEN SubSeq(s, i, j) ELSE NoMatch
  ELSE NoMatch

\* json_match.group() of the leftmost match, NoMatch when json_match is None
re_search(s) ==
  IF \E i \in 1..Len(s) : RegexMatchAt(s, i) # 0
  THEN LET i == CHOOSE i \in 1..Len(s) :
                  /\ RegexMatchAt(s, i) # 0
                  /\ \A k \in 1..(i - 1) : RegexMatchAt(s, k) = 0
       IN SubSeq(s, i, RegexMatchAt(s, i))
  ELSE NoMatch

(* --------------------------- _extract_json ----------------------------- *)

Return(v) == [kind |-> "return", val |-> v, exc |-> "-"]
Raise(e) == [kind |-> "raise", val |-> NoneVal, exc |-> e]

\* AIService._extract_json: only json.JSONDecodeError of the direct parse is
\* caught; the parse of the matched span is under a bare except
\* return json.loads(json_match.group()) under the bare except, parsed being
\* the outcome of that json.loads
ExtractSpan(parsed) ==
  IF parsed.kind = "ok" THEN Return(parsed.val) ELSE Return(NoneVal)

\* the except branch without the search for an embedded span
ExtractMatch_no_recovery(json_match) == Return(NoneVal)

\* the except json.JSONDecodeError branch, json_match being the matched text
ExtractMatch(json_match) ==
  IF json_match # NoMatch THEN ExtractSpan(json_loads(json_match))
  ELSE Return(NoneVal)

\* _extract_json once json.loads(text) ended as direct
ExtractDirect(text, direct) ==
  IF direct.kind = "ok" THEN Return(direct.val)
  ELSE IF direct.kind = "JSONDecodeError" THEN ExtractMatch(re_search(text))
  ELSE Raise(direct.kind)

_extract_json(text) == ExtractDirect(text, json_loads(text))

(* ------------------------- Python str and values ----------------------- *)

\* str.strip(): leading and trailing whitespace removed
Strip(s) ==
  IF \A k \in 1..Len(s) : s[k] \in Whitespace THEN <<>>
  ELSE LET a == CHOOSE a \in 1..Len(s) :
                  s[a] \notin Whitespace /\ \A k \in 1..(a - 1) : s[k] \in Whitespace
           b == CHOOSE b \in 1..Len(s) :
                  s[b] \notin Whitespace /\ \A k \in (b + 1)..Len(s) : s[k] \in Whitespace
       IN SubSeq(s, a, b)

RECURSIVE Split(_, _)
\* str.split(sep) for a one-character sep: the list of pieces
Split(s, sep) ==
  IF \E k \in 1..Len(s) : s[k] = sep
  THEN LET k == CHOOSE k \in 1..Len(s) :
                  s[k] = sep /\ \A j \in 1..(k - 1) : s[j] # sep
       IN <<SubSeq(s, 1, k - 1)>> \o Split(SubSeq(s, k + 1, Len(s)), sep)
  ELSE <<s>>

RECURSIVE Replace(_, _)
\* str.replace(old, ''): every non-overlapping occurrence removed, left to right
Replace(s, old) ==
  IF \E k \in 1..Len(s) : HasPrefixAt(s, k, old)
  THEN LET k == CHOOSE k \in 1..Len(s) :
                  HasPrefixAt(s, k, old) /\ \A j \in 1..(k - 1) : ~HasPrefixAt(s, j, old)
       IN SubSeq(s, 1, k - 1) \o Replace(SubSeq(s, k + Len(old), Len(s)), old)
  ELSE s

Str(chars) == [t |-> "str", v |-> chars]
List(items) == [t |-> "arr", v |-> items]
\* a dict the code builds with literal keys: v is a record
Dict(rec) == [t |-> "dict", v |-> rec]
\* a str literal of the program, kept whole
Lit(string) == [t |-> "lit", v |-> string]
\* a str whose characters are not tracked (a provider reply, a file name)
Opaque(name) == [t |-> "opaque", v |-> name]
PyInt(n) == [t |-> "int", v |-> n]

\* bool(v)
Truthy(val) ==
  CASE val.t = "none" -> FALSE
    [] val.t = "bool" -> val.v # <<>>
    [] val.t = "num" -> \E k \in 1..Len(val.v) : val.v[k] \in (Digits \ {"0"}) \cup {"N", "I"}
    [] val.t = "int" -> val.v # 0
    [] val.t = "str" -> val.v # <<>>
    [] val.t = "arr" -> val.v # <<>>
    [] val.t = "obj" -> DOMAIN val.v # {}
    [] OTHER -> TRUE

(* ------------------------ config.Settings, __init__ -------------------- *)

\* attributes class Settings defines
SettingsAttrs ==
  {"PROJECT_NAME", "PROJECT_VERSION", "SECRET_KEY", "ALGORITHM",
   "ACCESS_TOKEN_EXPIRE_MINUTES", "GROQ_API_KEY", "HF_API_KEY",
   "GOOGLE_API_KEY", "GROQ_MODEL", "IBM_MODEL", "DATABASE_URL"}

\* outcomes of importing and configuring google.generativeai
GenaiInits == {"ok", "ImportError", "Exception"}

\* the process environment: for each key, whether os.getenv gives a non-empty
\* value, and what the genai library does when it is initialised
Envs ==
  [GROQ_API_KEY : BOOLEAN, GOOGLE_API_KEY : BOOLEAN, HF_API_KEY : BOOLEAN,
   genai : GenaiInits]

\* AIService.__init__: TRUE for a client handle that was created, FALSE for None
AIService_init(e) ==
  LET groq == e.GROQ_API_KEY
      genai == e.GOOGLE_API_KEY /\ e.genai = "ok"
  IN IF e.HF_API_KEY
     THEN [exc |-> "-", groq_client |-> groq, genai_model |-> genai,
           hf_client |-> TRUE]
     ELSE IF "HUGGINGFACE_TOKEN" \in SettingsAttrs
     THEN [exc |-> "-", groq_client |-> groq, genai_model |-> genai,
           hf_client |-> FALSE]
     ELSE [exc |-> "AttributeError", groq_client |-> FALSE,
           genai_model |-> FALSE, hf_client |-> FALSE]

(* ------------------------------ providers ------------------------------ *)

\* every str over Alphabet of at most n characters
TextsUpTo(n) == SeqsUpTo(Alphabet, n)

\* longer provider replies, one per shape the handlers tell apart
SampleTexts ==
  { <<"[", "1", "]">>,
    <<"x", ",", " ", "x">>,
    <<"#", "1", ",", "x", ",", " ", "#", "x", "\n">>,
    <<"[", "\"", "x", "\"", "]">>,
    <<"{", "\"", "x", "\"", ":", "1", "}">>,
    <<"[", "{", "\"", "n", "a", "m", "e", "\"", ":", "1", "}", "]">>,
    <<"P", "r", "o", "m", "p", "t", ":", " ", "\"", "x", "\"">> }

\* what a text provider can answer with
ReplyTexts == TextsUpTo(MaxReply) \cup SampleTexts

\* the handler has no provider text (yet)
NoText == <<"<no text>">>

\* str(e) of the exceptions the providers raise
GenaiErrors == {"GeminiQuotaError", "GeminiBlockedError"}
GroqErrors == {"GroqAPIError", "GroqTimeout"}
HFErrors == {"HFModelLoading", "HFPaymentRequired"}

Ok(text) == [ok |-> TRUE, text |-> text, err |-> "-"]
Err(e) == [ok |-> FALSE, text |-> NoText, err |-> e]

\* genai_model.generate_content(...).text: a str, or an exception
GenaiOutcomes == {Ok(t) : t \in ReplyTexts} \cup {Err(e) : e \in GenaiErrors}
\* chat.completions.create(...).choices[0].message.content: a str or None,
\* or an exception
GroqOutcomes ==
  {Ok(t) : t \in ReplyTexts \cup {NoneText}} \cup {Err(e) : e \in GroqErrors}

\* the outcomes enumerated for one handler call, <<Gemini's, Groq's>>: one
\* provider ranges over all its outcomes while the other raises or answers
\* with the one-character reply
ProbeText == <<"1">>
ProviderOutcomes ==
  (GenaiOutcomes \X ({Err(e) : e \in GroqErrors} \cup {Ok(ProbeText)}))
  \cup (({Err(e) : e \in GenaiErrors} \cup {Ok(ProbeText)}) \X GroqOutcomes)

\* the outcomes enumerated for generate_logo, which only strips the reply and
\* removes 'Prompt:' and the quotes from it: the sample replies and the
\* replies of at most one character
LogoTexts == SampleTexts \cup TextsUpTo(1) \cup {NoneText}
LogoOutcomes ==
  {o \in ProviderOutcomes : \A k \in 1..2 : o[k].ok => o[k].text \in LogoTexts}

NoLLM == "No working LLM client available (Gemini or Groq)"
NoGroq == "Groq Client not initialized"

\* one provider invocation and what it gave
Call(p, out) == [p |-> p, out |-> out]

\* _generate_text without the return of line 61: Gemini's answer is kept only
\* when Groq is not configured
_generate_text_fallthrough(genai_model, groq_client, gOut, qOut) ==
  LET calls == (IF genai_model THEN <<Call("gemini", gOut)>> ELSE <<>>)
               \o (IF groq_client THEN <<Call("groq", qOut)>> ELSE <<>>)
  IN IF groq_client
     THEN IF qOut.ok
          THEN [kind |-> "return", text |-> qOut.text, exc |-> "-", calls |-> calls]
          ELSE [kind |-> "raise", text |-> NoText, exc |-> qOut.err, calls |-> calls]
     ELSE IF genai_model /\ gOut.ok
     THEN [kind |-> "return", text |-> gOut.text, exc |-> "-", calls |-> calls]
     ELSE [kind |-> "raise", text |-> NoText, exc |-> NoLLM, calls |-> calls]

\* _generate_text without the test of line 67: Groq is invoked whether or not
\* groq_client is set
_generate_text_unguarded(genai_model, groq_client, gOut, qOut) ==
  LET viaGemini == genai_model /\ gOut.ok
      calls == (IF genai_model THEN <<Call("gemini", gOut)>> ELSE <<>>)
               \o (IF ~viaGemini THEN <<Call("groq", qOut)>> ELSE <<>>)
  IN IF viaGemini
     THEN [kind |-> "return", text |-> gOut.text, exc |-> "-", calls |-> calls]
     ELSE IF groq_client /\ qOut.ok
     THEN [kind |-> "return", text |-> qOut.text, exc |-> "-", calls |-> calls]
     ELSE [kind |-> "raise", text |-> NoText,
           exc |-> IF groq_client THEN qOut.err
                   ELSE "'NoneType' object has no attribute 'chat'",
           calls |-> calls]

\* AIService._generate_text; calls lists the provider invocations, in order
_generate_text(genai_model, groq_client, gOut, qOut) ==
  LET viaGemini == genai_model /\ gOut.ok
      calls == (IF genai_model THEN <<Call("gemini", gOut)>> ELSE <<>>)
               \o (IF ~viaGemini /\ groq_client THEN <<Call("groq", qOut)>>
                   ELSE <<>>)
  IN IF viaGemini
     THEN [kind |-> "return", text |-> gOut.text, exc |-> "-", calls |-> calls]
     ELSE IF groq_client
     THEN IF qOut.ok
          THEN [kind |-> "return", text |-> qOut.text, exc |-> "-", calls |-> calls]
          ELSE [kind |-> "raise", text |-> NoText, exc |-> qOut.err, calls |-> calls]
     ELSE [kind |-> "raise", text |-> NoText, exc |-> NoLLM, calls |-> calls]

(* ------------------------------ responses ------------------------------ *)

NotRun == [kind |-> "not_run", val |-> NoneVal, exc |-> "-"]

\* what one handler call leaves behind: the HTTP status (0 while the handler
\* runs) and body or HTTPException detail, the provider invocations it made,
\* the provider text it worked on, the outcome of _extract_json, and for
\* generate_logo the prompt, the image backends requested, the length of the
\* prompt handed to urllib.parse.quote and the files it wrote
NoResp ==
  [op |-> "-", status |-> 0, body |-> NoneVal, detail |-> <<>>,
   calls |-> <<>>, text |-> NoText, extract |-> NotRun,
   prompt |-> NoneVal, img_calls |-> <<>>, last_error |-> "None",
   quoted_len |-> 0, saved |-> 0, tmp_left |-> 0]

\* except Exception as e: raise HTTPException(status_code=500, detail=str(e))
HTTP500(op, detail, calls, text, extract) ==
  [NoResp EXCEPT !.op = op, !.status = 500, !.detail = detail,
                 !.calls = calls, !.text = text, !.extract = extract]

HTTP200(op, body, calls, text, extract) ==
  [NoResp EXCEPT !.op = op, !.status = 200, !.body = body,
                 !.calls = calls, !.text = text, !.extract = extract]

\* str(e) of the exceptions raised inside the handlers
ExcText(exc) ==
  CASE exc = "TypeError" ->
         "the JSON object must be str, bytes or bytearray, not NoneType"
    [] exc = "AttributeError" -> "'NoneType' object has no attribute 'replace'"
    [] OTHER -> exc

\* result = await self._generate_text(...), lines 121, 154, 185, 328, 361, 395
TextStep(self, gOut, qOut) ==
  {_generate_text(self.genai_model, self.groq_client, gOut, qOut)}

\* self._extract_json(result), lines 122, 155, 329, 362, 396: not reached when
\* _generate_text raised
ExtractStep(g) == {IF g.kind = "return" THEN _extract_json(g.text) ELSE NotRun}

\* the rest of a handler that ran _generate_text (outcome g) and then
\* _extract_json on its text (outcome x) and answers with body
JsonHandler(op, g, x, body) ==
  IF g.kind = "raise" THEN HTTP500(op, <<g.exc>>, g.calls, NoText, NotRun)
  ELSE IF x.kind = "raise"
  THEN HTTP500(op, <<ExcText(x.exc)>>, g.calls, g.text, x)
  ELSE HTTP200(op, body, g.calls, g.text, x)

(* ----------------------- handlers: JSON operations --------------------- *)

\* the request fields that reach a response
BrandNames == {"Acme", "Zed"}
\* len(req.description) of the logo requests enumerated
DescLens == {12, 294, 400}

NameKey == <<"n", "a", "m", "e">>

RECURSIVE CleanNames(_)
\* generate_brand lines 130-135: dicts with a 'name' key give that entry,
\* strs are kept, everything else is dropped
CleanNames(names) ==
  IF names = <<>> THEN <<>>
  ELSE LET n == Head(names)
           rest == CleanNames(Tail(names))
       IN IF n.t = "obj" /\ NameKey \in DOMAIN n.v THEN <<n.v[NameKey]>> \o rest
          ELSE IF n.t = "str" THEN <<n>> \o rest
          ELSE rest

\* generate_brand lines 124-138
BrandBody(result, extracted) ==
  LET pieces == Split(result, ",")
      names == IF ~Truthy(extracted) /\ (\E k \in 1..Len(result) : result[k] = ",")
               THEN List([i \in 1..Len(pieces) |-> Str(Strip(pieces[i]))])
               ELSE extracted
  IN IF names.t = "arr" THEN Dict([brand_names |-> List(CleanNames(names.v))])
     ELSE Dict([brand_names |-> List(<<>>)])

generate_brand(g, x) == JsonHandler("generate_brand", g, x, BrandBody(g.text, x.val))

\* generate_tagline lines 157-161
TaglineBody(brand_name, taglines) ==
  IF ~Truthy(taglines)
  THEN Dict([taglines |-> List(<<Dict(
         [tagline |-> [t |-> "fstr", v |-> <<brand_name, ": The best choice.">>],
          logic |-> Lit("Generic fallback")])>>)])
  ELSE Dict([taglines |-> taglines])

generate_tagline(brand_name, g, x) ==
  JsonHandler("generate_tagline", g, x, TaglineBody(brand_name, x.val))

ProductDefault ==
  Dict([short_description |-> Lit("Failed to generate description."),
        long_description |-> Lit("Please try again."),
        marketing_blurb |-> Lit(""),
        bullets |-> List(<<>>)])

\* generate_product_description lines 331-339
ProductBody(result, content) ==
  IF ~Truthy(content) THEN ProductDefault ELSE content

generate_product_description(g, x) == JsonHandler("generate_product_description", g, x, ProductBody(g.text, x.val))

SentimentDefault ==
  Dict([sentiment |-> Lit("Neutral"),
        score |-> PyInt(50),
        summary |-> Lit("Could not parse detailed analysis."),
        key_issues |-> List(<<Lit("Analysis format error")>>),
        suggestions |-> List(<<Lit("Please try again with different text.")>>)])

\* analyze_sentiment returning the extracted value as it is
SentimentBody_passthrough(result, analysis) == analysis

\* analyze_sentiment lines 364-374
SentimentBody(result, analysis) ==
  IF ~Truthy(analysis) THEN SentimentDefault ELSE analysis

analyze_sentiment(g, x) == JsonHandler("analyze_sentiment", g, x, SentimentBody(g.text, x.val))

TaglineAnalysisDefault ==
  Dict([sentiment |-> Lit("Unknown"),
        impact_score |-> PyInt(0),
        reach_potential |-> Lit("Low"),
        analysis |-> Lit("Could not analyze tagline."),
        suggestions |-> List(<<>>),
        better_alternatives |-> List(<<>>)])

\* analyze_tagline lines 398-407
TaglineAnalysisBody(result, analysis) ==
  IF ~Truthy(analysis) THEN TaglineAnalysisDefault ELSE analysis

analyze_tagline(g, x) == JsonHandler("analyze_tagline", g, x, TaglineAnalysisBody(g.text, x.val))

(* -------------------- handlers: direct Groq operations ----------------- *)

\* a provider text as a Python value
TextVal(text) == IF text = NoneText THEN NoneVal ELSE Str(text)

\* generate_content lines 297-311
generate_content(self, qOut) ==
  IF ~self.groq_client
  THEN HTTP500("generate_content", <<NoGroq>>, <<>>, NoText, NotRun)
  ELSE IF ~qOut.ok
  THEN HTTP500("generate_content", <<qOut.err>>, <<Call("groq", qOut)>>, NoText, NotRun)
  ELSE HTTP200("generate_content", Dict([content |-> TextVal(qOut.text)]),
               <<Call("groq", qOut)>>, qOut.text, NotRun)

\* replies enumerated for get_colors besides GroqOutcomes: the palette of the
\* specification's example, and colours spread over several lines
PaletteText ==
  <<"#", "F", "F", "0", "0", "0", "0", ",", " ", "#", "0", "0", "F",
    "F", "0", "0", ",", " ", "b", "l", "u", "e", ",", " ", "#", "0",
    "0", "0", "0", "F", "F">>
ColorTexts ==
  { PaletteText,
    <<"#", "1", "\n", "1", ",", "x">>,
    <<"#", "1", ",", "\n", "#", "x", ",", "x", "#">> }

\* line 425 without its filter: every stripped piece is kept
HexTokens_unfiltered(pieces) == [i \in 1..Len(pieces) |-> Str(Strip(pieces[i]))]

RECURSIVE HexTokens(_)
\* get_colors line 425: the stripped pieces that start with '#'
HexTokens(pieces) ==
  IF pieces = <<>> THEN <<>>
  ELSE LET c == Strip(Head(pieces))
       IN IF CharAt(c, 1) = "#" THEN <<Str(c)>> \o HexTokens(Tail(pieces))
          ELSE HexTokens(Tail(pieces))

\* get_colors lines 413-429
get_colors(self, qOut) ==
  IF ~self.groq_client
  THEN HTTP500("get_colors", <<NoGroq>>, <<>>, NoText, NotRun)
  ELSE IF ~qOut.ok
  THEN HTTP500("get_colors", <<qOut.err>>, <<Call("groq", qOut)>>, NoText, NotRun)
  ELSE IF qOut.text = NoneText
  THEN HTTP500("get_colors", <<ExcText("AttributeError")>>, <<Call("groq", qOut)>>,
               qOut.text, NotRun)
  ELSE HTTP200("get_colors",
               Dict([colors |->
                 List(HexTokens(Split(Replace(qOut.text, <<"\n">>), ",")))]),
               <<Call("groq", qOut)>>, qOut.text, NotRun)

\* chat lines 432-451
chat(self, qOut) ==
  IF ~self.groq_client
  THEN HTTP500("chat", <<NoGroq>>, <<>>, NoText, NotRun)
  ELSE IF ~qOut.ok
  THEN HTTP500("chat", <<qOut.err>>, <<Call("groq", qOut)>>, NoText, NotRun)
  ELSE HTTP200("chat", Dict([reply |-> TextVal(qOut.text)]),
               <<Call("groq", qOut)>>, qOut.text, NotRun)

\* outcomes of await file.read() on the upload
UploadOutcomes == {"ok", "UploadReadError"}

\* transcribe_voice lines 454-474: the temporary file is created with
\* delete=False and unlinked only after the transcription call returned
transcribe_voice(self, upload, tOut) ==
  IF ~self.groq_client
  THEN HTTP500("transcribe_voice", <<NoGroq>>, <<>>, NoText, NotRun)
  ELSE IF upload # "ok"
  THEN HTTP500("transcribe_voice", <<upload>>, <<>>, NoText, NotRun)
  ELSE IF ~tOut.ok
  THEN [HTTP500("transcribe_voice", <<tOut.err>>, <<Call("groq_audio", tOut)>>, NoText, NotRun)
          EXCEPT !.tmp_left = 1]
  ELSE HTTP200("transcribe_voice", Dict([transcription |-> Str(tOut.text)]),
               <<Call("groq_audio", tOut)>>, tOut.text, NotRun)

(* ---------------------------- generate_logo ---------------------------- *)

LogoFailed == "Logo generation failed: "

\* lengths of the literals of lines 191 and 241
LogoPrefixLen == 8
LogoSepLen == 2
LogoSuffixLen == 64
FallbackSuffixLen == 31
\* line 242-244: the fallback prompt is cut to this many characters
MaxFallbackPrompt == 400

\* line 202-207
models_to_try ==
  << [id |-> "ByteDance/SDXL-Lightning", steps |-> 8],
     [id |-> "runwayml/stable-diffusion-v1-5", steps |-> 20],
     [id |-> "segmind/SSD-1B", steps |-> 20],
     [id |-> "prompthero/openjourney", steps |-> 20] >>

\* what hf_client.text_to_image does for each entry of models_to_try
HFOutcomes == [1..Len(models_to_try) -> {"image"} \cup HFErrors]
\* what requests.get and Image.open do for the Pollinations URL
PollOutcomes == {"200_image", "200_not_an_image", "status_500", "ConnectionError"}
\* whether logos_dir.mkdir and image.save succeed
SaveOutcomes == {"ok", "OSError"}

\* the fallback prompt without the trim
TrimPrompt_untrimmed(n) == n

\* lines 242-244: len(final_prompt) after the trim
TrimPrompt(n) == IF n > MaxFallbackPrompt THEN MaxFallbackPrompt ELSE n

\* len(image_prompt), line 191
PromptLen(prompt) ==
  LogoPrefixLen + prompt.v.desc + LogoSepLen + Len(prompt.v.raw) + LogoSuffixLen

\* lines 166-192: the prompt step. The response stays open (status 0) for
\* the image step unless the step raises
generate_logo_prompt(self, desc, g) ==
  IF ~self.groq_client
  THEN HTTP500("generate_logo", <<LogoFailed, NoGroq>>, <<>>, NoText, NotRun)
  ELSE IF g.kind = "raise"
  THEN HTTP500("generate_logo", <<LogoFailed, g.exc>>, g.calls, NoText, NotRun)
  ELSE IF g.text = NoneText
  THEN HTTP500("generate_logo", <<LogoFailed, ExcText("AttributeError")>>,
               g.calls, g.text, NotRun)
  ELSE [NoResp EXCEPT
          !.op = "generate_logo", !.calls = g.calls, !.text = g.text,
          !.prompt = [t |-> "prompt",
                      v |-> [desc |-> desc,
                             raw |-> Strip(Replace(
                                       Replace(g.text, <<"P", "r", "o", "m", "p", "t", ":">>),
                                       <<"\"">>))]]]

\* lines 212-230: index of the first backend that returns an image, 0 if none
FirstImage(hf) ==
  IF \E i \in DOMAIN hf : hf[i] = "image"
  THEN CHOOSE i \in DOMAIN hf : hf[i] = "image" /\ \A k \in 1..(i - 1) : hf[k] # "image"
  ELSE 0

\* lines 194-295: the image cascade, the save and the response, on the open
\* response r of the prompt step
generate_logo_image(self, r, hf, poll, save) ==
  LET first == FirstImage(hf)
      tried == IF first = 0 THEN Len(models_to_try) ELSE first
      hf_calls == [i \in 1..tried |-> Call(models_to_try[i].id, hf[i])]
      failed == IF first = 0 THEN tried ELSE first - 1
      last_error == IF failed = 0 THEN "None" ELSE hf[failed]
      final_len == PromptLen(r.prompt) + FallbackSuffixLen
      quoted_len == TrimPrompt(final_len)
      image == first # 0 \/ poll = "200_image"
      img_calls == IF first = 0 THEN Append(hf_calls, Call("pollinations", poll))
                   ELSE hf_calls
  IN IF ~self.hf_client
     THEN [r EXCEPT !.status = 200,
                    !.body = Dict([prompt |-> r.prompt, image |-> NoneVal,
                                   file_url |-> NoneVal])]
     ELSE IF ~image
     THEN [r EXCEPT !.status = 500,
                    !.detail = <<LogoFailed, "All models failed. Last error: ",
                                 last_error>>,
                    !.img_calls = img_calls, !.last_error = last_error,
                    !.quoted_len = quoted_len]
     ELSE IF save # "ok"
     THEN [r EXCEPT !.status = 500, !.detail = <<LogoFailed, save>>,
                    !.img_calls = img_calls, !.last_error = last_error,
                    !.quoted_len = IF first = 0 THEN quoted_len ELSE 0]
     ELSE [r EXCEPT !.status = 200,
                    !.body = Dict([prompt |-> r.prompt,
                                   image |-> Opaque("data:image/png;base64"),
                                   file_url |-> Opaque("/static/generated_logos/logo.png")]),
                    !.img_calls = img_calls, !.last_error = last_error,
                    !.quoted_len = IF first = 0 THEN quoted_len ELSE 0,
                    !.saved = 1]

(* ----------------------------- state machine --------------------------- *)

VARIABLES
  phase,       \* "boot" before backend.ai_service is imported, then "ready",
               \* or "startup_failed" when AIService() raised
  env,         \* the process environment read by config.Settings
  self,        \* the client handles of the ai_service singleton
  resp,        \* the response of the request being handled, NoResp when idle
  logo_files,  \* files under static/generated_logos
  tmp_files,   \* upload files left in the temporary directory
  xtext,       \* SpecExtract: the argument of _extract_json
  xout,        \* SpecExtract: its outcome
  loop,        \* SpecLoop: the request whose coroutine holds the event loop
               \* thread, 0 when the loop waits for events
  reqs         \* SpecLoop: the requests of the clients and where each stands

vars ==
  <<phase, env, self, resp, logo_files, tmp_files, xtext, xout, loop, reqs>>

Requests == 1..MaxRequests

\* a request no client has sent yet
Unsent == [op |-> "-", pc |-> "unsent", site |-> "-", n |-> 0, ok |-> FALSE]
NoRequests == [r \in Requests |-> Unsent]

NoClients == [groq_client |-> FALSE, genai_model |-> FALSE, hf_client |-> FALSE]

Init ==
  /\ phase = "boot"
  /\ env \in Envs
  /\ self = NoClients
  /\ resp = NoResp
  /\ logo_files = 0
  /\ tmp_files = 0
  /\ xtext = NoText
  /\ xout = NotRun
  /\ loop = 0
  /\ reqs = NoRequests

\* ai_service = AIService(), line 476, run when main.py imports the module
Construct ==
  /\ phase = "boot"
  /\ LET r == AIService_init(env) IN
       /\ phase' = IF r.exc = "-" THEN "ready" ELSE "startup_failed"
       /\ self' = [groq_client |-> r.groq_client, genai_model |-> r.genai_model,
                   hf_client |-> r.hf_client]
  /\ UNCHANGED <<env, resp, logo_files, tmp_files, xtext, xout, loop, reqs>>

\* a route of main.py awaits one handler at a time
Idle == phase = "ready" /\ resp = NoResp

\* the handler's result r becomes the response; the files it wrote stay
Handled(r) ==
  /\ resp' = r
  /\ logo_files' = logo_files + resp'.saved
  /\ tmp_files' = tmp_files + resp'.tmp_left
  /\ UNCHANGED <<phase, env, self, xtext, xout, loop, reqs>>

GenerateBrand ==
  /\ Idle
  /\ \E o \in ProviderOutcomes :
       \E g \in TextStep(self, o[1], o[2]) :
         \E x \in ExtractStep(g) : Handled(generate_brand(g, x))

GenerateTagline ==
  /\ Idle
  /\ \E o \in ProviderOutcomes, b \in BrandNames :
       \E g \in TextStep(self, o[1], o[2]) :
         \E x \in ExtractStep(g) : Handled(generate_tagline(b, g, x))

GenerateProductDescription ==
  /\ Idle
  /\ \E o \in ProviderOutcomes :
       \E g \in TextStep(self, o[1], o[2]) :
         \E x \in ExtractStep(g) : Handled(generate_product_description(g, x))

AnalyzeSentiment ==
  /\ Idle
  /\ \E o \in ProviderOutcomes :
       \E g \in TextStep(self, o[1], o[2]) :
         \E x \in ExtractStep(g) : Handled(analyze_sentiment(g, x))

AnalyzeTagline ==
  /\ Idle
  /\ \E o \in ProviderOutcomes :
       \E g \in TextStep(self, o[1], o[2]) :
         \E x \in ExtractStep(g) : Handled(analyze_tagline(g, x))

GenerateContent ==
  /\ Idle
  /\ \E q \in GroqOutcomes : Handled(generate_content(self, q))

GetColors ==
  /\ Idle
  /\ \E q \in GroqOutcomes \cup {Ok(t) : t \in ColorTexts} :
       Handled(get_colors(self, q))

Chat ==
  /\ Idle
  /\ \E q \in GroqOutcomes : Handled(chat(self, q))

TranscribeVoice ==
  /\ Idle
  /\ tmp_files < MaxTmpFiles
  /\ \E u \in UploadOutcomes, t \in {Ok(ProbeText)} \cup {Err(e) : e \in GroqErrors} :
       Handled(transcribe_voice(self, u, t))

GenerateLogoPrompt ==
  /\ Idle
  /\ logo_files < MaxLogoFiles
  /\ \E o \in LogoOutcomes, d \in DescLens :
       \E g \in TextStep(self, o[1], o[2]) :
         Handled(generate_logo_prompt(self, d, g))

GenerateLogoImage ==
  /\ phase = "ready"
  /\ resp.op = "generate_logo" /\ resp.status = 0
  /\ \E hf \in HFOutcomes, poll \in PollOutcomes, save \in SaveOutcomes :
       Handled(generate_logo_image(self, resp, hf, poll, save))

\* the route returns the handler's result (or FastAPI renders the
\* HTTPException) and the next request can be handled
Deliver ==
  /\ resp.status # 0
  /\ resp' = NoResp
  /\ UNCHANGED <<phase, env, self, logo_files, tmp_files, xtext, xout, loop, reqs>>

Handlers ==
  \/ GenerateBrand
  \/ GenerateTagline
  \/ GenerateProductDescription
  \/ AnalyzeSentiment
  \/ AnalyzeTagline
  \/ GenerateContent
  \/ GetColors
  \/ Chat
  \/ TranscribeVoice
  \/ GenerateLogoPrompt
  \/ GenerateLogoImage
  \/ Deliver

Next == Construct \/ Handlers

Spec == Init /\ [][Next]_vars

\* the handlers on a service object with any combination of client handles
InitHandles ==
  /\ phase = "ready"
  /\ self \in [groq_client : BOOLEAN, genai_model : BOOLEAN, hf_client : BOOLEAN]
  /\ env = [GROQ_API_KEY |-> self.groq_client, GOOGLE_API_KEY |-> self.genai_model,
            HF_API_KEY |-> self.hf_client, genai |-> "ok"]
  /\ resp = NoResp
  /\ logo_files = 0
  /\ tmp_files = 0
  /\ xtext = NoText
  /\ xout = NotRun
  /\ loop = 0
  /\ reqs = NoRequests

SpecHandles == InitHandles /\ [][Handlers]_vars

\* the texts of the extraction examples of the specification
WholeObject ==
  <<"{", "\"", "a", "\"", ":", " ", "1", "}">>
WholeArray ==
  <<"[", "\"", "x", "\"", ",", " ", "\"", "y", "\"", "]">>
EmbeddedObject ==
  <<"S", "u", "r", "e", "!", " ", "H", "e", "r", "e", ":", " ", "{",
    "\"", "a", "\"", ":", " ", "1", "}", " ", "T", "h", "a", "n", "k",
    "s", ".">>
NoJson ==
  <<"n", "o", "t", " ", "j", "s", "o", "n", " ", "a", "t", " ", "a", "l",
    "l">>
ExtractExamples == {WholeObject, WholeArray, EmbeddedObject, NoJson}

\* _extract_json as a function of its argument
InitExtract ==
  /\ phase = "boot"
  /\ env = [GROQ_API_KEY |-> FALSE, GOOGLE_API_KEY |-> FALSE,
            HF_API_KEY |-> FALSE, genai |-> "ok"]
  /\ self = NoClients
  /\ resp = NoResp
  /\ logo_files = 0
  /\ tmp_files = 0
  /\ xtext \in TextsUpTo(MaxLen) \cup SampleTexts \cup ExtractExamples \cup {NoneText}
  /\ xout = NotRun
  /\ loop = 0
  /\ reqs = NoRequests

ExtractJson ==
  /\ xout = NotRun
  /\ xout' = _extract_json(xtext)
  /\ UNCHANGED <<phase, env, self, resp, logo_files, tmp_files, xtext, loop, reqs>>

SpecExtract == InitExtract /\ [][ExtractJson]_vars

(* ------------------- the handlers on the event loop -------------------- *)

\* the routes of main.py are 'async def': each request is a coroutine of the
\* one event loop of the process. One route per way of reaching the providers
LoopOps == {"generate_brand", "chat", "generate_logo"}

\* the first provider _generate_text asks, lines 56 and 67, "end" when line 84
\* raises
ChainStart(svc) ==
  IF svc.genai_model THEN "gemini"
  ELSE IF svc.groq_client THEN "groq"
  ELSE "end"

\* where a handler goes once it has its text: generate_logo enters the image
\* cascade when hf_client is set (line 198), the others return
AfterText(svc, op) ==
  IF op = "generate_logo" /\ svc.hf_client THEN "hf" ELSE "end"

\* the next provider call of request q, "end" when the handler returns or
\* raises without another call. q.site is the call that just ended and q.ok
\* whether it gave a usable answer
NextSite(svc, q) ==
  CASE q.site = "start" ->
         IF q.op = "chat" THEN (IF svc.groq_client THEN "groq" ELSE "end")
         ELSE IF q.op = "generate_logo" /\ ~svc.groq_client THEN "end"
         ELSE ChainStart(svc)
    [] q.site = "gemini" ->
         IF q.ok THEN AfterText(svc, q.op)
         ELSE IF svc.groq_client THEN "groq"
         ELSE "end"
    [] q.site = "groq" -> IF q.ok THEN AfterText(svc, q.op) ELSE "end"
    [] q.site = "hf" ->
         IF q.ok THEN "end"
         ELSE IF q.n < Len(models_to_try) THEN "hf"
         ELSE "pollinations"
    [] OTHER -> "end"

\* whether the call at a site is given a timeout: only requests.get of line
\* 249 has one; generate_content (line 60), chat.completions.create (lines
\* 73-77) and text_to_image (lines 219-226) are called without
HasTimeout(site) == site = "pollinations"

\* a client sends a request to one of the routes
SendRequest(r) ==
  /\ reqs[r].pc = "unsent"
  /\ \E op \in LoopOps : reqs' = [reqs EXCEPT ![r] = [Unsent EXCEPT !.op = op, !.pc = "sent"]]
  /\ UNCHANGED <<phase, env, self, resp, logo_files, tmp_files, xtext, xout, loop>>

\* the event loop, when no coroutine is running on it, starts the route's
\* coroutine for a request that has arrived
AcceptRequest(r) ==
  /\ loop = 0
  /\ reqs[r].pc = "sent"
  /\ loop' = r
  /\ reqs' = [reqs EXCEPT ![r].pc = "running", ![r].site = "start"]
  /\ UNCHANGED <<phase, env, self, resp, logo_files, tmp_files, xtext, xout>>

\* the coroutine reaches its next provider call. The call is an ordinary
\* synchronous call made inside the coroutine: the event loop thread runs it
\* and stays with request r
StartCall(r) ==
  /\ loop = r
  /\ reqs[r].pc = "running"
  /\ NextSite(self, reqs[r]) # "end"
  /\ reqs' = [reqs EXCEPT
       ![r].pc = "calling",
       ![r].site = NextSite(self, reqs[r]),
       ![r].n = IF NextSite(self, reqs[r]) = "hf" THEN reqs[r].n + 1 ELSE reqs[r].n]
  /\ UNCHANGED <<phase, env, self, resp, logo_files, tmp_files, xtext, xout, loop>>

\* the provider answers or the call raises
CallReturns(r) ==
  /\ reqs[r].pc = "calling"
  /\ \E ok \in BOOLEAN : reqs' = [reqs EXCEPT ![r].pc = "running", ![r].ok = ok]
  /\ UNCHANGED <<phase, env, self, resp, logo_files, tmp_files, xtext, xout, loop>>

\* the provider never answers: a call with a timeout raises, a call without
\* one does not return
CallUnanswered(r) ==
  /\ reqs[r].pc = "calling"
  /\ reqs' = [reqs EXCEPT
       ![r].pc = IF HasTimeout(reqs[r].site) THEN "running" ELSE "hung",
       ![r].ok = FALSE]
  /\ UNCHANGED <<phase, env, self, resp, logo_files, tmp_files, xtext, xout, loop>>

\* the handler returns or raises HTTPException: the response is sent and the
\* event loop is free again
FinishRequest(r) ==
  /\ loop = r
  /\ reqs[r].pc = "running"
  /\ NextSite(self, reqs[r]) = "end"
  /\ loop' = 0
  /\ reqs' = [reqs EXCEPT ![r].pc = "done"]
  /\ UNCHANGED <<phase, env, self, resp, logo_files, tmp_files, xtext, xout>>

LoopNext ==
  \E r \in Requests :
    \/ SendRequest(r)
    \/ AcceptRequest(r)
    \/ StartCall(r)
    \/ CallReturns(r)
    \/ CallUnanswered(r)
    \/ FinishRequest(r)

SpecLoop == InitHandles /\ [][LoopNext]_vars

(* ================================ claims =============================== *)

\* the handlers that obtain their text from _generate_text
JsonOps ==
  {"generate_brand", "generate_tagline", "generate_product_description",
   "analyze_sentiment", "analyze_tagline"}
ChainOps == JsonOps \cup {"generate_logo"}

\* C1: within one _generate_text call no provider is invoked twice; when
\* Gemini answers, its text is returned and Groq is not invoked; when Gemini
\* raises and Groq answers, Groq's text is returned.
C1_FirstSuccessWins ==
  resp.op \in ChainOps =>
    LET c == resp.calls IN
    /\ \A i, j \in DOMAIN c : c[i].p = c[j].p => i = j
    /\ (Len(c) >= 1 /\ c[1].p = "gemini" /\ c[1].out.ok)
         => (Len(c) = 1 /\ resp.text = c[1].out.text)
    /\ (Len(c) >= 2 /\ c[1].p = "gemini" /\ ~c[1].out.ok
          /\ c[2].p = "groq" /\ c[2].out.ok)
         => (Len(c) = 2 /\ resp.text = c[2].out.text)
    /\ (self.genai_model /\ self.groq_client /\ Len(c) = 1) => c[1].out.ok

\* C1 witness: Gemini raised, Groq answered with a reply of its own, and that
\* reply is the text the handler worked on
C1_Witness ==
  /\ resp.op \in JsonOps
  /\ Len(resp.calls) = 2
  /\ ~resp.calls[1].out.ok
  /\ resp.calls[2].out.ok
  /\ resp.calls[2].out.text # ProbeText
  /\ resp.text = resp.calls[2].out.text

\* C2: with neither genai_model nor groq_client set, a handler that runs
\* _generate_text ends in the "No working LLM client available" error and
\* has invoked no provider.
C2_NoProviderNoCall ==
  (resp.op \in JsonOps /\ ~self.genai_model /\ ~self.groq_client)
    => (resp.status = 500 /\ resp.detail = <<NoLLM>> /\ resp.calls = <<>>)

\* C2 witness: a request handled by a service that has no text provider
C2_Witness ==
  /\ phase = "ready" /\ ~self.genai_model /\ ~self.groq_client
  /\ resp.op = "analyze_sentiment" /\ resp.status = 500

\* C3: when at least one provider was configured and every configured
\* provider raised, the failure carries the error of the last provider
\* invoked (so it differs from the no-provider failure).
C3_LastErrorCarried ==
  (resp.op \in JsonOps /\ resp.calls # <<>>
     /\ \A i \in DOMAIN resp.calls : ~resp.calls[i].out.ok)
    => (resp.status = 500
        /\ resp.detail = <<resp.calls[Len(resp.calls)].out.err>>)

\* C4: _extract_json never raises, whatever value the provider call handed
\* to it.
C4_ExtractNeverRaises == resp.extract.kind # "raise"

(* C5 *)

\* the span from the first '[' or '{' to the last ']' or '}' of the text
ClaimedSpan(s) ==
  LET opens == {i \in 1..Len(s) : s[i] \in {"[", "{"}}
      closes == {j \in 1..Len(s) : s[j] \in {"]", "}"}}
  IN IF opens # {} /\ closes # {}
     THEN LET i == CHOOSE i \in opens : \A k \in opens : i <= k
              j == CHOOSE j \in closes : \A k \in closes : j >= k
          IN IF i < j THEN SubSeq(s, i, j) ELSE NoMatch
     ELSE NoMatch

Closer(c) == IF c = "[" THEN "]" ELSE "}"

\* the span from the leftmost '[' or '{' that has a closing bracket of its
\* own kind after it, to the last closing bracket of that kind
SameKindSpan(s) ==
  LET starts == {i \in 1..Len(s) :
                   /\ s[i] \in {"[", "{"}
                   /\ \E j \in (i + 1)..Len(s) : s[j] = Closer(s[i])}
  IN IF starts = {} THEN NoMatch
     ELSE LET i == CHOOSE i \in starts : \A k \in starts : i <= k
              ends == {j \in (i + 1)..Len(s) : s[j] = Closer(s[i])}
              j == CHOOSE j \in ends : \A k \in ends : j >= k
          IN SubSeq(s, i, j)

\* the result the extractor gives when span is its one candidate
FromSpan(span) ==
  IF span # NoMatch /\ json_loads(span).kind = "ok"
  THEN Return(json_loads(span).val)
  ELSE Return(NoneVal)

DirectParseFailed ==
  xout # NotRun /\ xtext # NoneText /\ json_loads(xtext).kind = "JSONDecodeError"

\* C5 (as claimed): when the direct parse fails, the one candidate is the
\* span from the first '[' or '{' to the last ']' or '}', whatever their
\* kinds, and the result is its parse or none.
C5_Original == DirectParseFailed => xout = FromSpan(ClaimedSpan(xtext))

\* C5 (amended): when the direct parse fails, the one candidate is the span
\* from the leftmost '[' or '{' that is followed by a closing bracket of its
\* own kind to the last closing bracket of that kind, and the result is its
\* parse or none.
C5_SameKindSpan == DirectParseFailed => xout = FromSpan(SameKindSpan(xtext))

\* C5 witness: the direct parse failed, the same-kind span is not the span
\* of the claim, and its parse was returned
C5_Witness ==
  /\ DirectParseFailed
  /\ SameKindSpan(xtext) # ClaimedSpan(xtext)
  /\ xout.kind = "return" /\ xout.val.t = "arr" /\ xout.val.v # <<>>

(* C6 *)

\* the keys of section 6 as Python strs
KeyChars ==
  [brand_names |-> <<"b", "r", "a", "n", "d", "_", "n", "a", "m", "e", "s">>,
   taglines |-> <<"t", "a", "g", "l", "i", "n", "e", "s">>,
   tagline |-> <<"t", "a", "g", "l", "i", "n", "e">>,
   logic |-> <<"l", "o", "g", "i", "c">>,
   content |-> <<"c", "o", "n", "t", "e", "n", "t">>,
   short_description |-> <<"s", "h", "o", "r", "t", "_", "d", "e", "s", "c", "r", "i", "p", "t", "i", "o", "n">>,
   long_description |-> <<"l", "o", "n", "g", "_", "d", "e", "s", "c", "r", "i", "p", "t", "i", "o", "n">>,
   marketing_blurb |-> <<"m", "a", "r", "k", "e", "t", "i", "n", "g", "_", "b", "l", "u", "r", "b">>,
   bullets |-> <<"b", "u", "l", "l", "e", "t", "s">>,
   sentiment |-> <<"s", "e", "n", "t", "i", "m", "e", "n", "t">>,
   score |-> <<"s", "c", "o", "r", "e">>,
   summary |-> <<"s", "u", "m", "m", "a", "r", "y">>,
   key_issues |-> <<"k", "e", "y", "_", "i", "s", "s", "u", "e", "s">>,
   suggestions |-> <<"s", "u", "g", "g", "e", "s", "t", "i", "o", "n", "s">>,
   impact_score |-> <<"i", "m", "p", "a", "c", "t", "_", "s", "c", "o", "r", "e">>,
   reach_potential |-> <<"r", "e", "a", "c", "h", "_", "p", "o", "t", "e", "n", "t", "i", "a", "l">>,
   analysis |-> <<"a", "n", "a", "l", "y", "s", "i", "s">>,
   better_alternatives |-> <<"b", "e", "t", "t", "e", "r", "_", "a", "l", "t", "e", "r", "n", "a", "t", "i", "v", "e", "s">>,
   colors |-> <<"c", "o", "l", "o", "r", "s">>,
   reply |-> <<"r", "e", "p", "l", "y">>,
   prompt |-> <<"p", "r", "o", "m", "p", "t">>,
   image |-> <<"i", "m", "a", "g", "e">>,
   file_url |-> <<"f", "i", "l", "e", "_", "u", "r", "l">>,
   transcription |-> <<"t", "r", "a", "n", "s", "c", "r", "i", "p", "t", "i", "o", "n">>]

IsString(val) == val.t \in {"str", "lit", "opaque", "fstr"}
IsList(val) == val.t = "arr"

\* val is a mapping with exactly the keys names
IsMapping(val, names) ==
  \/ val.t = "dict" /\ DOMAIN val.v = names
  \/ val.t = "obj" /\ DOMAIN val.v = {KeyChars[n] : n \in names}

\* the entry of a mapping under key n
Field(val, n) == IF val.t = "dict" THEN val.v[n] ELSE val.v[KeyChars[n]]

\* the output shape section 6 documents for op
HasShape(op, body) ==
  CASE op = "generate_brand" ->
         /\ IsMapping(body, {"brand_names"})
         /\ IsList(Field(body, "brand_names"))
         /\ \A i \in DOMAIN Field(body, "brand_names").v :
              IsString(Field(body, "brand_names").v[i])
    [] op = "generate_tagline" ->
         /\ IsMapping(body, {"taglines"})
         /\ IsList(Field(body, "taglines"))
         /\ \A i \in DOMAIN Field(body, "taglines").v :
              IsMapping(Field(body, "taglines").v[i], {"tagline", "logic"})
    [] op = "generate_content" ->
         IsMapping(body, {"content"}) /\ IsString(Field(body, "content"))
    [] op = "generate_product_description" ->
         IsMapping(body, {"short_description", "long_description",
                          "marketing_blurb", "bullets"})
    [] op = "analyze_sentiment" ->
         IsMapping(body, {"sentiment", "score", "summary", "key_issues",
                          "suggestions"})
    [] op = "analyze_tagline" ->
         IsMapping(body, {"sentiment", "impact_score", "reach_potential",
                          "analysis", "suggestions", "better_alternatives"})
    [] op = "get_colors" ->
         IsMapping(body, {"colors"}) /\ IsList(Field(body, "colors"))
    [] op = "chat" -> IsMapping(body, {"reply"}) /\ IsString(Field(body, "reply"))
    [] op = "generate_logo" -> IsMapping(body, {"prompt", "image", "file_url"})
    [] op = "transcribe_voice" -> IsMapping(body, {"transcription"})
    [] OTHER -> FALSE

\* C6: every successful response has the shape section 6 documents for its
\* operation.
C6_DocumentedShape == resp.status = 200 => HasShape(resp.op, resp.body)

(* C7 *)

IsPoll(c) == c.p = "pollinations"
IsBackend(c) == c.p # "pollinations"

\* the image step of generate_logo has run on a service with an hf_client
LogoImageDone ==
  /\ resp.op = "generate_logo" /\ resp.status # 0
  /\ resp.prompt.t = "prompt" /\ self.hf_client

\* C7: when all backends of models_to_try failed, Pollinations is requested
\* exactly once with a prompt of at most 400 characters; a backend that
\* succeeds is the last request of the cascade; when Pollinations gives no
\* image either, the handler fails with "All models failed" and the last
\* backend error, and has written no file.
C7_ImageCascade ==
  LogoImageDone =>
    LET c == resp.img_calls
        backends == SelectSeq(c, IsBackend)
        polls == SelectSeq(c, IsPoll)
        allFailed == /\ Len(backends) = Len(models_to_try)
                     /\ \A i \in DOMAIN backends : backends[i].out # "image"
    IN /\ \A i \in DOMAIN backends : backends[i] = c[i]
       /\ \A i \in DOMAIN backends : backends[i].p = models_to_try[i].id
       /\ allFailed
            => /\ Len(polls) = 1
               /\ resp.quoted_len <= MaxFallbackPrompt
               /\ resp.quoted_len <= PromptLen(resp.prompt) + FallbackSuffixLen
       /\ \A i \in DOMAIN c : c[i].out = "image" => (i = Len(c) /\ polls = <<>>)
       /\ ~allFailed => (polls = <<>> /\ c # <<>> /\ c[Len(c)].out = "image")
       /\ (allFailed /\ polls[1].out # "200_image")
            => /\ resp.status = 500
               /\ resp.detail = <<LogoFailed, "All models failed. Last error: ",
                                  backends[Len(backends)].out>>
               /\ resp.body = NoneVal
               /\ resp.saved = 0

\* C7 witness: every backend failed, Pollinations was asked with a prompt
\* that had to be cut, gave no image, and the handler failed
C7_Witness ==
  /\ LogoImageDone
  /\ Len(resp.img_calls) = Len(models_to_try) + 1
  /\ resp.img_calls[Len(resp.img_calls)].out = "status_500"
  /\ PromptLen(resp.prompt) + FallbackSuffixLen > MaxFallbackPrompt
  /\ resp.quoted_len = MaxFallbackPrompt
  /\ resp.status = 500 /\ logo_files = 0

C9_StartupCompletes ==
  phase # "boot"
    => /\ phase = "ready"
       /\ self.groq_client = env.GROQ_API_KEY
       /\ self.hf_client = env.HF_API_KEY
       /\ self.genai_model => env.GOOGLE_API_KEY

\* C10: a handler that fails answers with status 500 and a message, returns
\* no body, and leaves no file behind.
C10_CleanFailure ==
  resp.status \notin {0, 200}
    => /\ resp.status = 500
       /\ resp.detail # <<>>
       /\ resp.body = NoneVal
       /\ resp.saved = 0
       /\ resp.tmp_left = 0

\* the payload the specification documents for a sentiment analysis whose
\* provider text held no JSON
DocumentedSentimentFallback ==
  [t |-> "dict",
   v |-> [sentiment |-> [t |-> "lit", v |-> "Neutral"],
          score |-> [t |-> "int", v |-> 50],
          summary |-> [t |-> "lit", v |-> "Could not parse detailed analysis."],
          key_issues |->
            [t |-> "arr", v |-> <<[t |-> "lit", v |-> "Analysis format error"]>>],
          suggestions |->
            [t |-> "arr",
             v |-> <<[t |-> "lit", v |-> "Please try again with different text."]>>]]]

\* C11: when _extract_json returned None for the provider text,
\* analyze_sentiment answers 200 with exactly the documented fallback payload,
\* whichever provider gave the text.
C11_SentimentFallback ==
  (resp.op = "analyze_sentiment" /\ resp.extract.kind = "return"
     /\ resp.extract.val = NoneVal)
    => (resp.status = 200 /\ resp.body = DocumentedSentimentFallback)

\* C11 witness: Gemini raised, Groq answered with a text that holds no JSON,
\* and the fallback payload was returned
C11_Witness ==
  /\ resp.op = "analyze_sentiment"
  /\ Len(resp.calls) = 2 /\ resp.calls[2].p = "groq" /\ resp.calls[2].out.ok
  /\ resp.text = <<"x", ",", " ", "x">>
  /\ resp.extract.kind = "return" /\ resp.extract.val = NoneVal
  /\ resp.status = 200 /\ resp.body = DocumentedSentimentFallback

Brackets == {"[", "]", "{", "}"}

\* text[i..j] is a JSON array or object and the rest of text has no bracket
WrappedAt(text, i, j) ==
  /\ text[i] \in {"[", "{"}
  /\ json_loads(SubSeq(text, i, j)).kind = "ok"
  /\ \A k \in 1..Len(text) : (k < i \/ k > j) => text[k] \notin Brackets

\* the values of the examples
ObjectA1 == [t |-> "obj", v |-> (<<"a">> :> [t |-> "num", v |-> <<"1">>])]
ArrayXY == [t |-> "arr", v |-> <<[t |-> "str", v |-> <<"x">>],
                                 [t |-> "str", v |-> <<"y">>]>>]

TrimmedPieces(text) ==
  [i \in 1..Len(Split(text, ",")) |->
     [t |-> "str", v |-> Strip(Split(text, ",")[i])]]

\* the first half of C13: the comma-split fallback of generate_brand
BrandCommaFallback ==
  (resp.op = "generate_brand" /\ resp.status = 200
     /\ resp.extract.val = NoneVal
     /\ \E k \in 1..Len(resp.text) : resp.text[k] = ",")
    => resp.body = [t |-> "dict",
                    v |-> [brand_names |->
                             [t |-> "arr", v |-> TrimmedPieces(resp.text)]]]

\* C13: a generate_brand response is {brand_names: L} with L a list of
\* strings; when extraction returned None and the text has a comma, L is the
\* list of the trimmed comma-separated pieces of the text.
C13_BrandNames ==
  (resp.op = "generate_brand" /\ resp.status = 200) =>
    /\ resp.body.t = "dict"
    /\ DOMAIN resp.body.v = {"brand_names"}
    /\ resp.body.v.brand_names.t = "arr"
    /\ \A i \in DOMAIN resp.body.v.brand_names.v :
         resp.body.v.brand_names.v[i].t = "str"
    /\ BrandCommaFallback

\* the trimmed comma-separated tokens of text that begin with '#', in order
HashTokens(text) ==
  SelectSeq(TrimmedPieces(text), LAMBDA c : Len(c.v) >= 1 /\ c.v[1] = "#")

\* text with its newline characters taken out
WithoutNewlines(text) == SelectSeq(text, LAMBDA ch : ch # "\n")

GotColors == resp.op = "get_colors" /\ resp.status = 200

\* C14 as stated: get_colors returns exactly the trimmed comma-separated
\* tokens of the provider text that begin with '#', in their order.
C14_Original ==
  GotColors =>
    resp.body = [t |-> "dict",
                 v |-> [colors |-> [t |-> "arr", v |-> HashTokens(resp.text)]]]

\* C14 amended: get_colors returns exactly the trimmed comma-separated tokens
\* that begin with '#', in their order, of the provider text with every
\* newline character removed.
C14_TokensOfJoinedLines ==
  GotColors =>
    resp.body = [t |-> "dict",
                 v |-> [colors |->
                          [t |-> "arr",
                           v |-> HashTokens(WithoutNewlines(resp.text))]]]

\* C14 witness: the palette of the example, with its non-hex entry dropped
C14_Witness ==
  /\ GotColors
  /\ resp.text = PaletteText
  /\ resp.body.v.colors.v =
       << [t |-> "str", v |-> <<"#", "F", "F", "0", "0", "0", "0">>],
          [t |-> "str", v |-> <<"#", "0", "0", "F", "F", "0", "0">>],
          [t |-> "str", v |-> <<"#", "0", "0", "0", "0", "F", "F">>] >>

\* the eight operations that ask a text provider, and generate_logo for its
\* prompt step
TextOps ==
  JsonOps \cup {"generate_content", "get_colors", "chat", "generate_logo"}

\* the response is the outcome of the text step of one of TextOps
TextStepDone == resp.op \in TextOps /\ resp.img_calls = <<>>

\* C15: on a service whose Gemini model is configured, every text operation
\* asks Gemini first, and fails in its text step only after Gemini was asked
\* and raised, whether or not the Groq client is configured.
C15_ChainEverywhere ==
  (TextStepDone /\ self.genai_model) =>
    /\ resp.calls # <<>> => resp.calls[1].p = "gemini"
    /\ (resp.status = 500 /\ resp.prompt = NoneVal)
         => \E i \in DOMAIN resp.calls :
              resp.calls[i].p = "gemini" /\ ~resp.calls[i].out.ok

\* C16: while a request is inside a provider call and another request has
\* arrived, the event loop thread is not held by the calling request and the
\* loop can start the coroutine of the other request.
C16_LoopStaysFree ==
  \A r, q \in Requests :
    (reqs[r].pc \in {"calling", "hung"} /\ reqs[q].pc = "sent")
      => (loop # r /\ ENABLED AcceptRequest(q))

\* C17: every provider call in progress was given a timeout, and no request
\* is left in a call that will never return.
C17_EveryCallTimed ==
  \A r \in Requests :
    /\ reqs[r].pc = "calling" => HasTimeout(reqs[r].site)
    /\ reqs[r].pc # "hung"

====
